---- MODULE Spec2Model ----
(***************************************************************************)
(* A model of the FMR / CPI reconciliation pipeline:                       *)
(*   prepareZipcodeData.py  zip-level loader   (stacked corpus)            *)
(*   dataProcessor.py       metro-level loader (joined corpus)             *)
(*   transformData.py       CPI matrix -> series                           *)
(*   analyze.py             lag search and anomaly counts                  *)
(* Each component is a pure batch function; it gets a specification of its *)
(* own whose Init draws the inputs and whose actions run the code.         *)
(*                                                                         *)
(* Numbers.  Rent cells are integers in units of 1/Unit, so that the mean  *)
(* of a group of rows is exact; NA is the missing value (pandas <NA>/NaN). *)
(* Correlations and standard deviations are never computed as reals: the   *)
(* comparisons the code makes on them are decided exactly on integers.     *)
(* Floating-point rounding is outside the model.                           *)
(***************************************************************************)
EXTENDS Integers, Sequences, FiniteSets, TLC

VARIABLES
  \* common_zipcode_mean called on one table
  d_variant, d_in, d_out, d_pc,
  \* zip-level load_all_fmr_files (prepareZipcodeData.py)
  z_files, z_disk, z_df, z_zip, z_assembled, z_final, z_pc, z_err,
  \* metro-level load_all_fmr_files (dataProcessor.py)
  m_files, m_method, m_disk, m_df, m_pc, m_err,
  \* zipcodes_trends (analyze.py)
  t_in, t_field, t_out, t_pc, t_err,
  \* lag_calculator (analyze.py)
  l_name, l_field, l_cpi, l_lag, l_best_corr, l_best_lag, l_result, l_plot, l_pc,
  l_err,
  \* transform_cpi_data (transformData.py)
  c_years, c_months, c_cells, c_year, c_df_t, c_pc,
  \* smooth_and_merge (transformData.py)
  s_cpi, s_fmr, s_start_month, s_binned, s_out, s_pc, s_err,
  \* select_area (fetchData.py)
  a_region, a_rows, a_typed, a_try_count, a_index, a_pc, a_err

dedupVars == <<d_variant, d_in, d_out, d_pc>>
zipVars == <<z_files, z_disk, z_df, z_zip, z_assembled, z_final, z_pc, z_err>>
metroVars == <<m_files, m_method, m_disk, m_df, m_pc, m_err>>
trendVars == <<t_in, t_field, t_out, t_pc, t_err>>
lagVars ==
  <<l_name, l_field, l_cpi, l_lag, l_best_corr, l_best_lag, l_result, l_plot, l_pc, l_err>>
cpiVars == <<c_years, c_months, c_cells, c_year, c_df_t, c_pc>>
smoothVars == <<s_cpi, s_fmr, s_start_month, s_binned, s_out, s_pc, s_err>>
selectVars == <<a_region, a_rows, a_typed, a_try_count, a_index, a_pc, a_err>>
vars ==
  <<dedupVars, zipVars, metroVars, trendVars, lagVars, cpiVars, smoothVars, selectVars>>

----------------------------------------------------------------------------
(* Bounds *)

\* rows of a table handed to common_zipcode_mean
MaxRows == 3

\* files of a corpus directory
MaxFiles == 3

\* rows of all the files of a corpus directory together
MaxCorpusRows == 3

\* zip codes of the metro area handed to zipcodes_trends
MaxTrendZips == 6

\* dates (years) of the table handed to zipcodes_trends
MaxDates == 3

\* rows of the table shown to the user of select_area
MaxAreaRows == 3

\* rows of a table handed to lag_calculator whose field is a shifted CPI
MaxSeries == 5

\* rows of a table handed to lag_calculator with any field and CPI
MaxPairLen == 3

\* year rows of the CPI matrix handed to transform_cpi_data
MaxYears == 2

\* month columns of the CPI matrix
MaxMonths == 2

\* monthly observations of the CPI series handed to smooth_and_merge
MaxObs == 3

\* rows of the rent table handed to smooth_and_merge
MaxFmrRows == 2

----------------------------------------------------------------------------
(* Values *)

\* the missing value of a cell (pandas NA / NaN / NaT)
NA == -1

RECURSIVE Fact(_)
Fact(n) == IF n <= 1 THEN 1 ELSE n * Fact(n - 1)

\* cells are integers in units of 1/Unit: dividing a sum of at most
\* MaxRows + 1 whole numbers by their count is exact
Unit == Fact(MaxRows + 1)

\* zip codes (digit strings of equal length: string order is numeric order)
Zips == {10001, 10002}

\* whole-dollar rents of the source files, in units
RentVals == {10 * Unit, 11 * Unit}
Cells == RentVals \cup {NA}

\* the five rent columns cols[1..5] of a normalized table
NumRentCols == 5

----------------------------------------------------------------------------
(* Sequences *)

RECURSIVE SeqSum(_)
SeqSum(s) == IF s = <<>> THEN 0 ELSE Head(s) + SeqSum(Tail(s))

Min(S) == CHOOSE x \in S : \A y \in S : x <= y
Max(S) == CHOOSE x \in S : \A y \in S : x >= y

\* the elements of a set of integers in ascending order
RECURSIVE SortedSeq(_)
SortedSeq(S) == IF S = {} THEN <<>> ELSE <<Min(S)>> \o SortedSeq(S \ {Min(S)})

\* sequences over S of length at most n
SeqUpTo(S, n) == UNION {[1..k -> S] : k \in 0..n}

Range(s) == {s[i] : i \in DOMAIN s}

----------------------------------------------------------------------------
(* common_zipcode_mean: prepareZipcodeData.py 131-164, dataProcessor.py    *)
(* 99-112.  A table is a sequence of rows [ZIPCODE, rent, Date]: rent is   *)
(* the tuple of cols[1..5], Date stands for any column beyond them.        *)

RowsOf(tbl, z) == SelectSeq(tbl, LAMBDA r : r.ZIPCODE = z)
ZipSet(tbl) == {tbl[i].ZIPCODE : i \in DOMAIN tbl}

\* groupby(cols[0]).count() of cols[1]: the non-missing cells of the group
GroupCount(tbl, z) == Len(SelectSeq(RowsOf(tbl, z), LAMBDA r : r.rent[1] # NA))

\* zips = list(non_unique[non_unique[cols[1]] > 1].index), in index order
NonUnique(tbl) == SortedSeq({z \in ZipSet(tbl) : GroupCount(tbl, z) > 1})

\* temp.mean(numeric_only=True)[cols[c]]: the mean of the non-missing cells,
\* NA when the group has none
ColumnMean(temp, c) ==
  LET present == SelectSeq(temp, LAMBDA r : r.rent[c] # NA)
  IN  IF present = <<>> THEN NA
      ELSE SeqSum([i \in DOMAIN present |-> present[i].rent[c]]) \div Len(present)

\* rounding a cell down to a whole number, in units
Floor(x) == (x \div Unit) * Unit

\* math.ceil on a cell, in units
Ceil(x) == ((x + Unit - 1) \div Unit) * Unit

\* one pass of the loop body for zipcode z; ceiling is TRUE in the zip-level
\* module.  math.ceil of a missing mean raises.
DedupStep(acc, z, ceiling) ==
  IF acc.err # "none" THEN acc
  ELSE LET temp == RowsOf(acc.rows, z)
           mean == [c \in 1..NumRentCols |-> ColumnMean(temp, c)]
           rest == SelectSeq(acc.rows, LAMBDA r : r.ZIPCODE # z)
       IN  IF ceiling /\ \E c \in 1..NumRentCols : mean[c] = NA
           THEN [err |-> "TypeError", rows |-> <<>>]
           ELSE [err |-> "none",
                 rows |-> Append(rest,
                   [ZIPCODE |-> z,
                    rent |-> [c \in 1..NumRentCols |->
                               IF ceiling THEN Ceil(mean[c]) ELSE mean[c]],
                    Date |-> NA])]

RECURSIVE DedupLoop(_, _, _)
DedupLoop(acc, zips, ceiling) ==
  IF zips = <<>> THEN acc
  ELSE DedupLoop(DedupStep(acc, Head(zips), ceiling), Tail(zips), ceiling)

\* the whole function: [err, rows]; err names the exception it raised
common_zipcode_mean(fmr_data, ceiling) ==
  DedupLoop([err |-> "none", rows |-> fmr_data], NonUnique(fmr_data), ceiling)

----------------------------------------------------------------------------
(* Specification of common_zipcode_mean alone *)

\* input rows: cols[1] free, cols[2..5] alike, and a Date column
DedupRow(z, c1, c2, d) ==
  [ZIPCODE |-> z, rent |-> <<c1, c2, c2, c2, c2>>, Date |-> d]

DedupRows == {DedupRow(z, c1, c2, 2019) : z \in Zips, c1 \in Cells, c2 \in Cells}

NoResult == [err |-> "none", rows |-> <<>>]

IdleDedup ==
  /\ d_variant = "zip"
  /\ d_in = <<>>
  /\ d_out = NoResult
  /\ d_pc = "idle"

InitDedup ==
  /\ d_variant \in {"zip", "metro"}
  /\ d_in \in SeqUpTo(DedupRows, MaxRows)
  /\ d_out = NoResult
  /\ d_pc = "start"

\* the call  fmr_data = common_zipcode_mean(fmr_data)
CallCommonZipcodeMean ==
  /\ d_pc = "start"
  /\ d_out' = common_zipcode_mean(d_in, d_variant = "zip")
  /\ d_pc' = IF d_out'.err = "none" THEN "done" ELSE "raised"
  /\ UNCHANGED <<d_variant, d_in>>
  /\ UNCHANGED <<zipVars, metroVars, trendVars, lagVars, cpiVars, smoothVars, selectVars>>

----------------------------------------------------------------------------
(* Source files.  A file on disk is [layout, rows]: the column layout it   *)
(* really has and its raw rows [ZIPCODE, rent, Date, area]; area is the    *)
(* 'HUD Area Code' cell of the row, which only layout A carries.           *)

Layouts == {"A", "B", "C", "D", "E"}

\* prepareZipcodeData.py 48-67: the layout whose columns are asked of the
\* file of a year (column_variation_1 .. _5)
ZipLayoutFor(year) ==
  IF year >= 2018 /\ year # 2020 THEN "A"
  ELSE IF year = 2020 THEN "B"
  ELSE IF 2016 <= year /\ year <= 2017 THEN "C"
  ELSE IF year = 2015 THEN "D"
  ELSE "E"

\* datetime.strptime("10-" + str(year), '%m-%Y'): 1 October, as yyyymm
OctoberOf(year) == year * 100 + 10

\* the years of the files of a directory: layout A before and after the
\* layout B year
YearPool == {2019, 2020, 2021}

\* glob.glob: the files of the directory in any order, one per year
Listings ==
  {l \in SeqUpTo(YearPool, MaxFiles) : \A i, j \in DOMAIN l : i # j => l[i] # l[j]}

Areas == {"METRO1", "METRO2"}

RawRow(z, c1) == [ZIPCODE |-> z, rent |-> <<c1, 10 * Unit, 10 * Unit, 10 * Unit, 10 * Unit>>,
                  Date |-> NA]
RawRows == {RawRow(z, c1) : z \in Zips, c1 \in {10 * Unit, NA}}

RECURSIVE Flatten(_)
Flatten(ss) == IF ss = <<>> THEN <<>> ELSE Head(ss) \o Flatten(Tail(ss))

Repeat(x, n) == [i \in 1..n |-> x]

\* the ZIPCODE column of a table
ZipColumn(tbl) == [i \in DOMAIN tbl |-> tbl[i].ZIPCODE]

CountOf(keys, z) == Len(SelectSeq(keys, LAMBDA k : k = z))

\* left.merge(right, how='inner', on='ZIPCODE') of two one-column frames:
\* one row per matching pair, in the order of the left keys
InnerMergeZip(left, right) ==
  Flatten([i \in DOMAIN left |-> Repeat(left[i], CountOf(right, left[i]))])

\* pd.merge(df, df_zip, how='inner', on='ZIPCODE'): every row of df once per
\* equal key of df_zip
MergeOnZip(df, keys) ==
  Flatten([i \in DOMAIN df |-> Repeat(df[i], CountOf(keys, df[i].ZIPCODE))])

RowBefore(r, s) ==
  \/ r.Date < s.Date
  \/ r.Date = s.Date /\ r.ZIPCODE < s.ZIPCODE

\* insert a row after the rows that are not after it (stable)
RECURSIVE SortedInsert(_, _)
SortedInsert(sorted, r) ==
  IF sorted = <<>> THEN <<r>>
  ELSE IF RowBefore(r, Head(sorted)) THEN <<r>> \o sorted
  ELSE <<Head(sorted)>> \o SortedInsert(Tail(sorted), r)

\* .sort_values(['Date', 'ZIPCODE'], ascending=True).reset_index(drop=True)
RECURSIVE SortByDateZip(_)
SortByDateZip(tbl) ==
  IF tbl = <<>> THEN <<>>
  ELSE SortedInsert(SortByDateZip(SubSeq(tbl, 1, Len(tbl) - 1)), tbl[Len(tbl)])

----------------------------------------------------------------------------
(* prepareZipcodeData.load_one_fmr_file, 15-83 *)

\* read_excel(usecols=use_cols) finds its columns only in a file of the
\* layout of the year (71-75); otherwise df stays the frame without columns,
\* and cols[0] in common_zipcode_mean raises IndexError (152-153)
ZipColumnsMatch(year, file) == file.layout = ZipLayoutFor(year)

\* [err, rows]: the normalized, deduplicated and dated table of the file
zip_load_one_fmr_file(year, file) ==
  IF ~ZipColumnsMatch(year, file) THEN [err |-> "IndexError", rows |-> <<>>]
  ELSE LET dedup == common_zipcode_mean(file.rows, TRUE)
       IN  IF dedup.err # "none" THEN dedup
           ELSE [err |-> "none",
                 rows |-> [i \in DOMAIN dedup.rows |->
                            [dedup.rows[i] EXCEPT !.Date = OctoberOf(year)]]]

----------------------------------------------------------------------------
(* prepareZipcodeData.merge_area_code_zipcode, 167-198 *)

\* 176-188: the greatest year of the listing (max_year starts at 0)
MaxYear(listing) == Max({0} \cup Range(listing))

IndexOfYear(listing, y) == CHOOSE i \in DOMAIN listing : listing[i] = y

\* 192-193: the two columns of the most recent file, one row per raw row
CodesOf(file, areas) ==
  [i \in DOMAIN file.rows |-> [ZIPCODE |-> file.rows[i].ZIPCODE, Metro_Codes |-> areas[i]]]

WithCode(r, code) ==
  [ZIPCODE |-> r.ZIPCODE, rent |-> r.rent, Date |-> r.Date, Metro_Codes |-> code]

\* a merge that keeps only the rows that have a code
InnerMergeCodes(fmr_data, codes) ==
  Flatten([i \in DOMAIN fmr_data |->
    LET match == SelectSeq(codes, LAMBDA c : c.ZIPCODE = fmr_data[i].ZIPCODE)
    IN  [j \in DOMAIN match |-> WithCode(fmr_data[i], match[j].Metro_Codes)]])

\* 196: pd.merge(fmr_data, codes, how='left', on='ZIPCODE')
LeftMergeCodes(fmr_data, codes) ==
  Flatten([i \in DOMAIN fmr_data |->
    LET match == SelectSeq(codes, LAMBDA c : c.ZIPCODE = fmr_data[i].ZIPCODE)
    IN  IF match = <<>> THEN <<WithCode(fmr_data[i], "NA")>>
        ELSE [j \in DOMAIN match |-> WithCode(fmr_data[i], match[j].Metro_Codes)]])

\* [err, rows]: map_year[0] is a KeyError for an empty directory; read_excel
\* raises ValueError when the most recent file lacks 'ZIP\nCode' / 'HUD Area
\* Code'
merge_area_code_zipcode(fmr_data, listing, disk, areas) ==
  IF listing = <<>> THEN [err |-> "KeyError", rows |-> <<>>]
  ELSE LET file == disk[IndexOfYear(listing, MaxYear(listing))]
       IN  IF file.layout # "A" THEN [err |-> "ValueError", rows |-> <<>>]
           ELSE [err |-> "none", rows |-> LeftMergeCodes(fmr_data, CodesOf(file, areas))]

----------------------------------------------------------------------------
(* prepareZipcodeData.load_all_fmr_files, 86-128.  z_disk holds the files  *)
(* read so far: what is on disk is the environment's, and is fixed when    *)
(* the loop first reads the file.                                          *)

IdleZip ==
  /\ z_files = <<>>
  /\ z_disk = <<>>
  /\ z_df = <<>>
  /\ z_zip = <<>>
  /\ z_assembled = <<>>
  /\ z_final = <<>>
  /\ z_pc = "idle"
  /\ z_err = "none"

InitZip ==
  /\ z_files \in Listings
  /\ z_disk = <<>>
  /\ z_df = <<>>
  /\ z_zip = <<>>
  /\ z_assembled = <<>>
  /\ z_final = <<>>
  /\ z_pc = "loop"
  /\ z_err = "none"

CorpusRows(disk) == SeqSum([i \in DOMAIN disk |-> Len(disk[i].rows)])

\* 112: the test that takes a file for the first one
ZipIsFirst(df, disk) == Len(df) = 0

\* 104-119: one pass of the loop
ZipLoadFile ==
  /\ z_pc = "loop"
  /\ Len(z_disk) < Len(z_files)
  /\ \E layout \in Layouts, rows \in SeqUpTo(RawRows, MaxCorpusRows - CorpusRows(z_disk)) :
       LET file == [layout |-> layout, rows |-> rows]
           data == zip_load_one_fmr_file(z_files[Len(z_disk) + 1], file)
       IN  /\ z_disk' = Append(z_disk, file)
           /\ z_err' = data.err
           /\ IF data.err # "none"
              THEN /\ z_pc' = "raised"
                   /\ UNCHANGED <<z_df, z_zip>>
              ELSE /\ z_pc' = "loop"
                   /\ IF ZipIsFirst(z_df, z_disk)
                      THEN /\ z_df' = data.rows
                           /\ z_zip' = ZipColumn(data.rows)
                      ELSE /\ z_df' = z_df \o data.rows
                           /\ z_zip' = InnerMergeZip(z_zip, ZipColumn(data.rows))
  /\ UNCHANGED <<z_files, z_assembled, z_final>>
  /\ UNCHANGED <<dedupVars, metroVars, trendVars, lagVars, cpiVars, smoothVars, selectVars>>

\* 121-128: the final merge, the sort and the area codes.  With no file at
\* all df has no ZIPCODE column and the merge raises KeyError.
ZipFinish ==
  /\ z_pc = "loop"
  /\ Len(z_disk) = Len(z_files)
  /\ IF z_files = <<>>
     THEN /\ z_pc' = "raised"
          /\ z_err' = "KeyError"
          /\ UNCHANGED <<z_assembled, z_final>>
     ELSE /\ z_assembled' = SortByDateZip(MergeOnZip(z_df, z_zip))
          /\ \E areas \in [DOMAIN z_disk[IndexOfYear(z_files, MaxYear(z_files))].rows -> Areas] :
               LET mapped == merge_area_code_zipcode(z_assembled', z_files, z_disk, areas)
               IN  /\ z_final' = mapped.rows
                   /\ z_err' = mapped.err
                   /\ z_pc' = IF mapped.err = "none" THEN "done" ELSE "raised"
  /\ UNCHANGED <<z_files, z_disk, z_df, z_zip>>
  /\ UNCHANGED <<dedupVars, metroVars, trendVars, lagVars, cpiVars, smoothVars, selectVars>>

---------------------------------------------------------------------------------------------------------------------------------------------------
(* dataProcessor.load_one_fmr_file, 29-69.  A metro-level row is           *)
(* [ZIPCODE, vals]: vals maps each merged year to its five <year>_nBR      *)
(* cells.                                                                  *)

\* 41-60: the layout asked of the file of a year; no branch assigns use_cols
\* for a year before 2014
MetroLayoutFor(year) ==
  IF year >= 2018 /\ year # 2020 THEN "A"
  ELSE IF year = 2020 THEN "B"
  ELSE IF year = 2017 \/ year = 2016 THEN "C"
  ELSE IF year = 2015 THEN "D"
  ELSE IF year = 2014 THEN "E"
  ELSE "unassigned"

NARent == [c \in 1..NumRentCols |-> NA]

\* 11-26, 65, 68: the columns named <year>_0BR .. <year>_4BR, ZIPCODE the index
MetroRow(r, year) == [ZIPCODE |-> r.ZIPCODE, vals |-> (year :> r.rent)]

\* [err, rows].  use_cols is unbound for a year without layout, and df is
\* unbound after the logged ValueError of read_excel (61-65)
metro_load_one_fmr_file(year, file) ==
  IF MetroLayoutFor(year) = "unassigned" \/ file.layout # MetroLayoutFor(year)
  THEN [err |-> "UnboundLocalError", rows |-> <<>>]
  ELSE LET dedup == common_zipcode_mean(file.rows, FALSE)
       IN  [err |-> dedup.err,
            rows |-> [i \in DOMAIN dedup.rows |-> MetroRow(dedup.rows[i], year)]]

----------------------------------------------------------------------------
(* dataProcessor.load_all_fmr_files, 72-96 *)

UpperLetters == <<"A", "B", "C", "D", "E", "F", "G", "H", "I", "J", "K", "L", "M",
                  "N", "O", "P", "Q", "R", "S", "T", "U", "V", "W", "X", "Y", "Z">>
LowerLetters == <<"a", "b", "c", "d", "e", "f", "g", "h", "i", "j", "k", "l", "m",
                  "n", "o", "p", "q", "r", "s", "t", "u", "v", "w", "x", "y", "z">>

\* str.lower(), on a string given as its sequence of characters
Lower(str) ==
  [i \in DOMAIN str |->
     IF \E k \in DOMAIN UpperLetters : UpperLetters[k] = str[i]
     THEN LowerLetters[CHOOSE k \in DOMAIN UpperLetters : UpperLetters[k] = str[i]]
     ELSE str[i]]

Inner == <<"i", "n", "n", "e", "r">>
Outer == <<"o", "u", "t", "e", "r">>

\* the merge_method arguments tried
MergeMethods ==
  {Inner, Outer, <<"I", "N", "N", "E", "R">>, <<"O", "u", "t", "e", "r">>,
   <<"l", "e", "f", "t">>}

\* 87: the test of the argument
MethodAccepted(method) == Lower(method) = Inner \/ Lower(method) = Outer

\* DataFrame.merge(how=...) knows the join only under its lower-case name
\* and raises for any other string (the exception depends on the pandas
\* version; it is called MergeError here)
PandasKnowsJoin(how) == how = Inner \/ how = Outer

MetroYearPool == {2013, 2020, 2021}

MetroListings ==
  {l \in SeqUpTo(MetroYearPool, MaxFiles) : \A i, j \in DOMAIN l : i # j => l[i] # l[j]}

\* the year columns of a frame with rows
ColumnsOf(df) == DOMAIN df[1].vals

Joined(l, r) == [ZIPCODE |-> l.ZIPCODE, vals |-> l.vals @@ r.vals]

\* how='inner' on the two indexes: the matching pairs, in the order of df
InnerJoin(df, data) ==
  Flatten([i \in DOMAIN df |->
    LET match == SelectSeq(data, LAMBDA r : r.ZIPCODE = df[i].ZIPCODE)
    IN  [j \in DOMAIN match |-> Joined(df[i], match[j])]])

\* how='outer': the union of the keys in sorted order; the cells of the side
\* that lacks the key are missing
OuterJoin(df, data, year) ==
  LET keys == SortedSeq(ZipSet(df) \cup ZipSet(data))
      blankLeft == [y \in ColumnsOf(df) |-> NARent]
  IN  Flatten([k \in DOMAIN keys |->
        LET l == SelectSeq(df, LAMBDA r : r.ZIPCODE = keys[k])
            r == SelectSeq(data, LAMBDA x : x.ZIPCODE = keys[k])
        IN  IF r = <<>>
            THEN [i \in DOMAIN l |-> Joined(l[i], [ZIPCODE |-> keys[k], vals |-> (year :> NARent)])]
            ELSE IF l = <<>>
            THEN [j \in DOMAIN r |-> Joined([ZIPCODE |-> keys[k], vals |-> blankLeft], r[j])]
            ELSE Flatten([i \in DOMAIN l |-> [j \in DOMAIN r |-> Joined(l[i], r[j])]])])

\* 93: df.merge(data, how=merge_method, left_index=True, right_index=True)
MetroMerge(df, data, year, how) ==
  IF how = Inner THEN InnerJoin(df, data) ELSE OuterJoin(df, data, year)

IdleMetro ==
  /\ m_files = <<>>
  /\ m_method = Inner
  /\ m_disk = <<>>
  /\ m_df = <<>>
  /\ m_pc = "idle"
  /\ m_err = "none"

InitMetro ==
  /\ m_files \in MetroListings
  /\ m_method \in MergeMethods
  /\ m_disk = <<>>
  /\ m_df = <<>>
  /\ m_pc = "start"
  /\ m_err = "none"

\* 89: the test that takes a file for the first one
MetroIsFirst(df, disk) == Len(df) = 0

\* 82-87, 94-95: the listing is read and the argument tested
MetroStart ==
  /\ m_pc = "start"
  /\ IF MethodAccepted(m_method)
     THEN m_pc' = "loop" /\ m_err' = "none"
     ELSE m_pc' = "raised" /\ m_err' = "ValueError"
  /\ UNCHANGED <<m_files, m_method, m_disk, m_df>>
  /\ UNCHANGED <<dedupVars, zipVars, trendVars, lagVars, cpiVars, smoothVars, selectVars>>

\* 88-93: one pass of the loop
MetroLoadFile ==
  /\ m_pc = "loop"
  /\ Len(m_disk) < Len(m_files)
  /\ \E layout \in Layouts, rows \in SeqUpTo(RawRows, MaxCorpusRows - CorpusRows(m_disk)) :
       LET year == m_files[Len(m_disk) + 1]
           file == [layout |-> layout, rows |-> rows]
           data == metro_load_one_fmr_file(year, file)
       IN  /\ m_disk' = Append(m_disk, file)
           /\ IF data.err # "none"
              THEN m_pc' = "raised" /\ m_err' = data.err /\ m_df' = m_df
              ELSE IF MetroIsFirst(m_df, m_disk)
              THEN m_pc' = "loop" /\ m_err' = "none" /\ m_df' = data.rows
              ELSE IF ~PandasKnowsJoin(m_method)
              THEN m_pc' = "raised" /\ m_err' = "MergeError" /\ m_df' = m_df
              ELSE /\ m_pc' = "loop"
                   /\ m_err' = "none"
                   /\ m_df' = MetroMerge(m_df, data.rows, year, m_method)
  /\ UNCHANGED <<m_files, m_method>>
  /\ UNCHANGED <<dedupVars, zipVars, trendVars, lagVars, cpiVars, smoothVars, selectVars>>

\* 96: return df
MetroFinish ==
  /\ m_pc = "loop"
  /\ Len(m_disk) = Len(m_files)
  /\ m_pc' = "done"
  /\ UNCHANGED <<m_files, m_method, m_disk, m_df, m_err>>
  /\ UNCHANGED <<dedupVars, zipVars, trendVars, lagVars, cpiVars, smoothVars, selectVars>>

----------------------------------------------------------------------------
(* analyze.zipcodes_trends, 85-143.  The input is the pivoted table (110):  *)
(* t_in[z][t] is the rent of the z-th zip code (in the order of unique(),   *)
(* 103) at the t-th date.  Percentage changes do not depend on the unit of  *)
(* rent, so rents are given as levels.                                      *)

TrendRents == {1, 2}

RECURSIVE Gcd(_, _)
Gcd(a, b) == IF b = 0 THEN a ELSE Gcd(b, a % b)

RECURSIVE LcmOf(_)
LcmOf(S) ==
  IF S = {} THEN 1
  ELSE LET x == CHOOSE y \in S : TRUE
           l == LcmOf(S \ {x})
       IN  (x * l) \div Gcd(x, l)

\* percentage changes are kept as integers over the denominator PctDen
PctDen == LcmOf(TrendRents)

NumDates(panel) == IF panel = <<>> THEN 0 ELSE Len(panel[1])

\* 112: the rows left by pct_change().dropna(): every date but the first
Periods(panel) == 2..NumDates(panel)

\* 112: pct_change of the column of zip z at date t, times PctDen
Pct(panel, z, t) ==
  (panel[z][t] - panel[z][t - 1]) * (PctDen \div panel[z][t - 1])

\* 111: Mean_Rent at date t, times the number of zip codes
RentSum(panel, t) == SeqSum([z \in DOMAIN panel |-> panel[z][t]])

PctSum(panel, t) == SeqSum([z \in DOMAIN panel |-> Pct(panel, z, t)])
PctSquares(panel, t) == SeqSum([z \in DOMAIN panel |-> Pct(panel, z, t) * Pct(panel, z, t)])

\* p - Mean_Rent' at (z, t), times PctDen * RentSum(t - 1): the distance of
\* the zip code from the percentage change of the mean rent
Distance(panel, z, t) ==
  Pct(panel, z, t) * RentSum(panel, t - 1)
    - PctDen * (RentSum(panel, t) - RentSum(panel, t - 1))

\* 114-118: |distance| against k = 2 standard deviations (ddof = 1), both
\* squared and brought to one denominator; STD is NaN for a single zip code
\* and every comparison with it is False
StdMultiple == 2

AtLeastBand(panel, z, t) ==
  LET n == Len(panel)
      d == Distance(panel, z, t)
      s == RentSum(panel, t - 1)
  IN  /\ n >= 2
      /\ d * d * n * (n - 1) >=
           StdMultiple * StdMultiple * s * s
             * (n * PctSquares(panel, t) - PctSum(panel, t) * PctSum(panel, t))

BeyondBand(panel, z, t) ==
  LET n == Len(panel)
      d == Distance(panel, z, t)
      s == RentSum(panel, t - 1)
  IN  /\ n >= 2
      /\ d * d * n * (n - 1) >
           StdMultiple * StdMultiple * s * s
             * (n * PctSquares(panel, t) - PctSum(panel, t) * PctSum(panel, t))

\* 124: upper = df_pivot[z] >= df_pivot['Upper_Limit'], one flag per period
UpperFlags(panel, z) ==
  [i \in 1..(NumDates(panel) - 1) |->
     Distance(panel, z, i + 1) >= 0 /\ AtLeastBand(panel, z, i + 1)]

\* 125: lower = df_pivot[z] <= df_pivot['Lower_Limit']
LowerFlags(panel, z) ==
  [i \in 1..(NumDates(panel) - 1) |->
     Distance(panel, z, i + 1) <= 0 /\ AtLeastBand(panel, z, i + 1)]

CountFlag(flags, b) == Len(SelectSeq(flags, LAMBDA f : f = b))

\* Series.value_counts(): the counts of the values that occur, greatest first
ValueCounts(flags) ==
  LET t == CountFlag(flags, TRUE)
      f == CountFlag(flags, FALSE)
  IN  IF t = 0 /\ f = 0 THEN <<>>
      ELSE IF t = 0 THEN <<f>>
      ELSE IF f = 0 THEN <<t>>
      ELSE IF t >= f THEN <<t, f>> ELSE <<f, t>>

\* 126-131: the count is read only when both values occur, at position 1
TrueCount(flags) ==
  IF Len(ValueCounts(flags)) = 2 THEN ValueCounts(flags)[2] ELSE 0

\* 137: df_pivot[z].mean() as <<numerator, denominator>>, NA without periods
MeanGrowth(panel, z) ==
  IF NumDates(panel) < 2 THEN <<NA, 1>>
  ELSE <<SeqSum([i \in 1..(NumDates(panel) - 1) |-> Pct(panel, z, i + 1)]),
         PctDen * (NumDates(panel) - 1)>>

\* 133-138: the report row of the z-th zip code
Deviation(panel, z) ==
  LET above == TrueCount(UpperFlags(panel, z))
      below == TrueCount(LowerFlags(panel, z))
  IN  [ZIPCODE |-> 10000 + z, Above |-> above, Below |-> below,
       Total |-> above + below, Mean_growth_rate |-> MeanGrowth(panel, z)]

\* the order of sort_values with ascending=True
RanksAscending(r, s) ==
  \/ r.Total < s.Total
  \/ r.Total = s.Total /\ r.Above < s.Above
  \/ r.Total = s.Total /\ r.Above = s.Above /\ r.Below < s.Below

\* 143: descending by Total, Above STD, Below STD
RanksBefore(r, s) ==
  \/ r.Total > s.Total
  \/ r.Total = s.Total /\ r.Above > s.Above
  \/ r.Total = s.Total /\ r.Above = s.Above /\ r.Below > s.Below

RECURSIVE RankInsert(_, _)
RankInsert(sorted, r) ==
  IF sorted = <<>> THEN <<r>>
  ELSE IF RanksBefore(r, Head(sorted)) THEN <<r>> \o sorted
  ELSE <<Head(sorted)>> \o RankInsert(Tail(sorted), r)

RECURSIVE SortByRank(_)
SortByRank(tbl) ==
  IF tbl = <<>> THEN <<>>
  ELSE RankInsert(SortByRank(SubSeq(tbl, 1, Len(tbl) - 1)), tbl[Len(tbl)])

zipcodes_trends(panel) == SortByRank([z \in DOMAIN panel |-> Deviation(panel, z)])

\* the rent of a zip code at each date
Trajectories(n) == {tr \in [1..n -> TrendRents] : tr[1] = Min(TrendRents)}

\* a trajectory as a number, to list the zip codes of a panel in one order
RECURSIVE Code(_)
Code(tr) == IF tr = <<>> THEN 0 ELSE Code(SubSeq(tr, 1, Len(tr) - 1)) * (Max(TrendRents) + 1) + tr[Len(tr)]

\* the field_to_analyze arguments tried: the six column names of the
\* docstrings and three others
FieldNames ==
  {"Efficiency", "One-Bedroom", "Two-Bedroom", "Three-Bedroom", "Four-Bedroom",
   "Mean_Rent", "CPI", "efficiency", "Studio"}

\* 98: acceptable_values
TrendsAcceptable ==
  {"Efficiency", "One-Bedroom", "Two-Bedroom", "Three-Bedroom", "Four-Bedroom",
   "Mean_Rent"}

IdleTrends ==
  /\ t_in = <<>>
  /\ t_field = "Efficiency"
  /\ t_out = <<>>
  /\ t_pc = "idle"
  /\ t_err = "none"

InitTrends ==
  /\ t_in = <<>>
  /\ t_field \in FieldNames
  /\ t_out = <<>>
  /\ t_pc = "input"
  /\ t_err = "none"

\* the caller's table, one zip code at a time: 1..MaxTrendZips zip codes over
\* 1..MaxDates dates, every zip code at every date (what the zip-level loader
\* leaves).  The zip codes come in one order of their trajectories: the
\* report does not depend on the labels.  The column of every field name is
\* a column of rents like any other, so the larger tables are tried under
\* one name.
TrendsAddZip ==
  /\ t_pc = "input"
  /\ Len(t_in) < (IF t_field = "Efficiency" THEN MaxTrendZips ELSE 1)
  /\ \E d \in 1..MaxDates : \E tr \in Trajectories(d) :
       /\ t_in # <<>> => (d = NumDates(t_in) /\ Code(t_in[Len(t_in)]) <= Code(tr))
       /\ t_in' = Append(t_in, tr)
  /\ UNCHANGED <<t_field, t_out, t_pc, t_err>>
  /\ UNCHANGED <<dedupVars, zipVars, metroVars, lagVars, cpiVars, smoothVars, selectVars>>

\* 98-100, then 102-143
CallZipcodesTrends ==
  /\ t_pc = "input"
  /\ t_in # <<>>
  /\ IF t_field \notin TrendsAcceptable
     THEN t_pc' = "raised" /\ t_err' = "ValueError" /\ UNCHANGED t_out
     ELSE t_pc' = "done" /\ t_err' = "none" /\ t_out' = zipcodes_trends(t_in)
  /\ UNCHANGED <<t_in, t_field>>
  /\ UNCHANGED <<dedupVars, zipVars, metroVars, lagVars, cpiVars, smoothVars, selectVars>>

----------------------------------------------------------------------------
(* analyze.lag_calculator, 10-82.  df[[field_to_analyze, 'CPI']] is the    *)
(* pair of columns l_field, l_cpi.  A correlation is kept as [def, c, v]:  *)
(* the Pearson coefficient is c / sqrt(v) with v > 0, or NaN when def is   *)
(* FALSE; it is only ever compared, which the integers c and v decide.     *)

LagVals == {1, 2, 3}

\* Series.shift(lag): the column moved down, missing cells on top
Shift(col, lag) ==
  [i \in DOMAIN col |-> IF i <= lag THEN NA ELSE col[i - lag]]

\* the rows in which both columns have a value (DataFrame.corr is pairwise)
BothPresent(x, y) == {i \in DOMAIN x : x[i] # NA /\ y[i] # NA}

\* the sum of x * y over the rows I
SumOver(I, x, y) ==
  SeqSum([i \in DOMAIN x |-> IF i \in I THEN x[i] * y[i] ELSE 0])

Ones(x) == [i \in DOMAIN x |-> 1]

\* n * sum(xy) - sum(x) * sum(y) over the rows I
CoMoment(I, x, y) ==
  Cardinality(I) * SumOver(I, x, y) - SumOver(I, x, Ones(x)) * SumOver(I, y, Ones(y))

\* 63: (shift_data - shift_data.mean()) / shift_data.std() maps a column to
\* a * x + b with a > 0 when the column has two different values; otherwise
\* std is 0 or NaN and the whole column becomes NaN
Scalable(col) ==
  LET I == BothPresent(col, col) IN Cardinality(I) >= 2 /\ CoMoment(I, col, col) > 0

NaNCorr == [def |-> FALSE, c |-> 0, v |-> 1]

\* 64: shift_data.corr().loc[field_to_analyze, 'CPI'] of the normalized
\* columns; a positive scaling of a column leaves the coefficient as it is
Corr(x, y) ==
  LET I == BothPresent(x, y)
      vx == CoMoment(I, x, x)
      vy == CoMoment(I, y, y)
  IN  IF Scalable(x) /\ Scalable(y) /\ Cardinality(I) >= 2 /\ vx > 0 /\ vy > 0
      THEN [def |-> TRUE, c |-> CoMoment(I, x, y), v |-> vx * vy]
      ELSE NaNCorr

\* 55-64: the correlation of the field with the CPI shifted by lag
CorrAtLag(field, cpi, lag) == Corr(field, Shift(cpi, lag))

\* the sign of c times c * c
SignedSquare(c) == IF c < 0 THEN 0 - c * c ELSE c * c

\* a comparison that also replaces the best on a tie
CorrGreaterOrEqual(a, b) ==
  a.def /\ b.def /\ SignedSquare(a.c) * b.v >= SignedSquare(b.c) * a.v

\* 65: corr > best_corr (False for NaN)
CorrGreater(a, b) ==
  a.def /\ b.def /\ SignedSquare(a.c) * b.v > SignedSquare(b.c) * a.v

\* 52: best_corr = 0
ZeroCorr == [def |-> TRUE, c |-> 0, v |-> 1]

\* a threshold of 0.50 in place of 0.80
BelowHalf(a) == a.c < 0 \/ 4 * a.c * a.c < a.v

\* 72: best_corr < 0.80, as c / sqrt(v) < 4 / 5
BelowThreshold(a) == a.c < 0 \/ 25 * a.c * a.c < 16 * a.v

\* 78: round(best_corr, 2), in hundredths
Rounded(a) ==
  CHOOSE k \in 0..100 :
    /\ (2 * k - 1) * (2 * k - 1) * a.v <= 40000 * a.c * a.c
    /\ 40000 * a.c * a.c < (2 * k + 1) * (2 * k + 1) * a.v

\* 54: range(0, 4)
Lags == 0..3

NoPlot == [field |-> <<>>, shifted |-> <<>>, cpi |-> <<>>]

\* 30-45: the three lines drawn: the field, 'CPI Shifted' and the CPI
plot_lag(field, cpi, time_lag) ==
  [field |-> field, shifted |-> Shift(cpi, time_lag), cpi |-> cpi]

NoReport == [kind |-> "pending", lag |-> 0, corr |-> 0]

\* an acceptable_values list that takes the CPI column for a rent field
LagAcceptableWithCpi ==
  {"Efficiency", "One-Bedroom", "Two-Bedroom", "Three-Bedroom", "Four-Bedroom",
   "Mean_Rent", "CPI"}

\* 25: acceptable_values
LagAcceptable ==
  {"Efficiency", "One-Bedroom", "Two-Bedroom", "Three-Bedroom", "Four-Bedroom",
   "Mean_Rent"}

IdleLag ==
  /\ l_name = "Efficiency"
  /\ l_err = "none"
  /\ l_field = <<>>
  /\ l_cpi = <<>>
  /\ l_lag = 0
  /\ l_best_corr = ZeroCorr
  /\ l_best_lag = 0
  /\ l_result = NoReport
  /\ l_plot = NoPlot
  /\ l_pc = "idle"

SeqsOfLen(S, n) == [1..n -> S]

\* the tables tried: a CPI column without gaps, and a field that is the CPI
\* shifted by some lag, or any column of up to MaxPairLen rows.  The column
\* of every field name is a column like any other, so the tables of more
\* than one row are tried under one name.
InitLag ==
  /\ l_cpi \in SeqUpTo(LagVals, MaxSeries)
  /\ l_name \in (IF Len(l_cpi) <= 1 THEN FieldNames ELSE {"Efficiency"})
  /\ l_err = "none"
  /\ l_field \in {Shift(l_cpi, k) : k \in Lags}
                   \cup (IF Len(l_cpi) <= MaxPairLen
                         THEN SeqsOfLen(LagVals, Len(l_cpi)) ELSE {})
  /\ l_lag = 0
  /\ l_best_corr = ZeroCorr
  /\ l_best_lag = 0
  /\ l_result = NoReport
  /\ l_plot = NoPlot
  /\ l_pc = "start"

\* 24-28: the test of field_to_analyze
LagValidate ==
  /\ l_pc = "start"
  /\ IF l_name \notin LagAcceptable
     THEN l_pc' = "raised" /\ l_err' = "ValueError"
     ELSE l_pc' = "valid" /\ l_err' = "none"
  /\ UNCHANGED <<l_name, l_field, l_cpi, l_lag, l_best_corr, l_best_lag, l_result, l_plot>>
  /\ UNCHANGED <<dedupVars, zipVars, metroVars, trendVars, cpiVars, smoothVars, selectVars>>

\* 48-49: use_estimate: the plot for the estimated lag, nothing computed
LagEstimate ==
  /\ l_pc = "valid"
  /\ \E estimated_lag \in Lags :
       l_plot' = plot_lag(l_field, l_cpi, estimated_lag)
  /\ l_result' = [kind |-> "estimate", lag |-> 0, corr |-> 0]
  /\ l_pc' = "done"
  /\ UNCHANGED <<l_name, l_err, l_field, l_cpi, l_lag, l_best_corr, l_best_lag>>
  /\ UNCHANGED <<dedupVars, zipVars, metroVars, trendVars, cpiVars, smoothVars, selectVars>>

\* 54-67: one pass of the search loop
LagTry ==
  /\ l_pc \in {"valid", "loop"}
  /\ l_lag \in Lags
  /\ LET corr == CorrAtLag(l_field, l_cpi, l_lag)
     IN  IF CorrGreater(corr, l_best_corr)
         THEN l_best_corr' = corr /\ l_best_lag' = l_lag
         ELSE UNCHANGED <<l_best_corr, l_best_lag>>
  /\ l_lag' = l_lag + 1
  /\ l_pc' = "loop"
  /\ UNCHANGED <<l_name, l_err, l_field, l_cpi, l_result, l_plot>>
  /\ UNCHANGED <<dedupVars, zipVars, metroVars, trendVars, cpiVars, smoothVars, selectVars>>

\* 72-80: the threshold, the two printed lines and the plot
LagDecide ==
  /\ l_pc = "loop"
  /\ l_lag \notin Lags
  /\ IF BelowThreshold(l_best_corr)
     THEN /\ l_result' = [kind |-> "no correlation", lag |-> 0, corr |-> 0]
          /\ l_plot' = NoPlot
     ELSE /\ l_result' = [kind |-> "reported", lag |-> l_best_lag,
                          corr |-> Rounded(l_best_corr)]
          /\ l_plot' = plot_lag(l_field, l_cpi, l_best_lag)
  /\ l_pc' = "done"
  /\ UNCHANGED <<l_name, l_err, l_field, l_cpi, l_lag, l_best_corr, l_best_lag>>
  /\ UNCHANGED <<dedupVars, zipVars, metroVars, trendVars, cpiVars, smoothVars, selectVars>>

----------------------------------------------------------------------------
(* transformData.transform_cpi_data, 10-42.  The CPI matrix has one row    *)
(* per year (c_years, the index), one column per month (c_months) and      *)
(* c_cells[i][j] as the reading of year i in month j, or NA.  The result   *)
(* is a sequence of rows [Date, CPI].                                      *)

CpiYearPool == {2020, 2021, 2022}

CpiMonthPool == {1, 2, 3}

\* sequences over S without a repeated element, of length lo to hi
DistinctSeqs(S, lo, hi) ==
  {q \in UNION {[1..k -> S] : k \in lo..hi} :
     \A i, j \in DOMAIN q : q[i] = q[j] => i = j}

\* a date that puts the month before the year
DateMonthFirst(year, month) == month * 10000 + year

\* 35: datetime.strptime(year + ' ' + month, '%Y %m'): the first day of
\* that month, kept as the number yyyymm
DateOf(year, month) == year * 100 + month

\* the reading the series has for a month of a year
Reading(year, month) == (year - 2000) * 12 + month

\* 32-36: the row of one year as a table indexed by Date with column 'CPI'
YearColumn(years, months, cells, i) ==
  [j \in DOMAIN months |->
     [Date |-> DateOf(years[i], months[j]), CPI |-> cells[i][j]]]

\* DataFrame.dropna()
dropna(table) == SelectSeq(table, LAMBDA row : row.CPI # NA)

IdleCpi ==
  /\ c_years = <<>>
  /\ c_months = <<>>
  /\ c_cells = <<>>
  /\ c_year = 0
  /\ c_df_t = <<>>
  /\ c_pc = "idle"

\* 27-28: a matrix as DataFrame.pivot leaves it (no year and no month
\* twice), in any order of rows and columns, with any cell missing
InitCpi ==
  /\ c_years \in DistinctSeqs(CpiYearPool, 0, MaxYears)
  /\ c_months \in DistinctSeqs(CpiMonthPool, 1, MaxMonths)
  /\ c_cells \in [DOMAIN c_years -> [DOMAIN c_months -> BOOLEAN]]
  /\ c_year = 0
  /\ c_df_t = <<>>
  /\ c_pc = "loop"

CellsOf(years, months, present) ==
  [i \in DOMAIN years |-> [j \in DOMAIN months |->
     IF present[i][j] THEN Reading(years[i], months[j]) ELSE NA]]

\* 31-40: one pass of the loop over the year rows
CpiPivotYear ==
  /\ c_pc = "loop"
  /\ c_year < Len(c_years)
  /\ LET y == YearColumn(c_years, c_months,
                         CellsOf(c_years, c_months, c_cells), c_year + 1)
     IN  c_df_t' = IF c_year = 0 THEN y ELSE dropna(c_df_t \o y)
  /\ c_year' = c_year + 1
  /\ UNCHANGED <<c_years, c_months, c_cells, c_pc>>
  /\ UNCHANGED <<dedupVars, zipVars, metroVars, trendVars, lagVars, smoothVars, selectVars>>

\* 42: return df_t
CpiReturn ==
  /\ c_pc = "loop"
  /\ c_year = Len(c_years)
  /\ c_pc' = "done"
  /\ UNCHANGED <<c_years, c_months, c_cells, c_year, c_df_t>>
  /\ UNCHANGED <<dedupVars, zipVars, metroVars, trendVars, lagVars, smoothVars, selectVars>>

----------------------------------------------------------------------------
(* transformData.smooth_and_merge, 45-87.  cpi is the table [Date, CPI]    *)
(* of transform_cpi_data, fmr the rent table of one area [Date, rent].  A  *)
(* mean is kept as the pair <<sum, count>>, NoMean when nothing is         *)
(* averaged (NaN).                                                         *)

NoMean == <<0, 0>>

YearOf(date) == date \div 100

MonthOf(date) == date % 100

\* the first days of month the CPI series may have an observation for
CpiDates == {DateOf(y, m) : y \in {2020, 2021}, m \in {1, 6, 7, 12}}

\* the Date values of the rent table
FmrDates == {201906, 202006, 202007, 202106}

\* the start_month arguments tried
StartMonths == {0 - 1, 0, 1, 6, 7, 12, 13}

FmrRent == <<10, 11, 12, 13, 14>>

\* the subsets of S with at most n elements, each as an ascending sequence
AscendingUpTo(S, n) == {SortedSeq(T) : T \in {U \in SUBSET S : Cardinality(U) <= n}}

\* a range check that lets 0 through
InRangeFromZero(start_month) == 0 <= start_month /\ start_month <= 12

\* 70: 1 <= start_month <= 12
InRange(start_month) == 1 <= start_month /\ start_month <= 12

\* 74-75: the keys of month_map
month_map == 1..12

\* an anchor taken in the calendar year of the date, also when it is later
RollbackCalendar(date, month) == DateOf(YearOf(date), month)

\* 77, 80: freq.rollback of 'YS-<month>': the last anchor (first day of that
\* month) on or before the date
Rollback(date, month) ==
  IF MonthOf(date) >= month THEN DateOf(YearOf(date), month)
  ELSE DateOf(YearOf(date) - 1, month)

\* 80: the labels of the bins of pd.Grouper(freq='YS-<month>'): the anchors
\* from the one on or before the first observation to the one on or before
\* the last, one year apart (closed and labelled on the left)
BinLabels(cpi, month) ==
  LET dates == {cpi[i].Date : i \in DOMAIN cpi}
      first == Rollback(Min(dates), month)
      last == Rollback(Max(dates), month)
  IN  [k \in 1..(YearOf(last) - YearOf(first) + 1) |-> first + 100 * (k - 1)]

\* a bin that is open on the left and closed on the right
InBinClosedRight(date, label) == label < date /\ date <= label + 100

\* 80: the observation belongs to the bin from its label up to, not
\* including, the next label
InBin(date, label) == label <= date /\ date < label + 100

\* 80: .mean() of one bin, skipping missing values
BinMean(cpi, label) ==
  LET obs == SelectSeq(cpi, LAMBDA r : InBin(r.Date, label) /\ r.CPI # NA)
  IN  IF obs = <<>> THEN NoMean
      ELSE <<SeqSum([i \in DOMAIN obs |-> obs[i].CPI]), Len(obs)>>

\* 80: cpi.groupby(pd.Grouper(freq=freq)).mean()
Rebin(cpi, month) ==
  LET labels == BinLabels(cpi, month)
  IN  [k \in DOMAIN labels |-> [Date |-> labels[k], CPI |-> BinMean(cpi, labels[k])]]

\* 84-85: mean(axis=1) of the five rent columns and CPI, as <<sum, count>>
\* brought to one denominator
MeanRent(rent, cpi) ==
  IF cpi = NoMean THEN <<SeqSum(rent), Len(rent)>>
  ELSE <<SeqSum(rent) * cpi[2] + cpi[1], (Len(rent) + 1) * cpi[2]>>

\* 81: pd.merge(fmr.set_index('Date'), cpi, how='inner', left_index=True,
\* right_index=True), then 84-87
MergeOnDate(fmr, binned) ==
  Flatten([i \in DOMAIN fmr |->
    LET match == SelectSeq(binned, LAMBDA b : b.Date = fmr[i].Date)
    IN  [j \in DOMAIN match |->
          [Date |-> fmr[i].Date, rent |-> fmr[i].rent,
           Mean_Rent |-> MeanRent(fmr[i].rent, match[j].CPI),
           CPI |-> match[j].CPI]]])

IdleSmooth ==
  /\ s_cpi = <<>>
  /\ s_fmr = <<>>
  /\ s_start_month = 1
  /\ s_binned = <<>>
  /\ s_out = <<>>
  /\ s_pc = "idle"
  /\ s_err = "none"

\* the arguments: a CPI series as transform_cpi_data returns it from a
\* sorted matrix, and the rent rows of one area, one per year
InitSmooth ==
  /\ \E dates \in AscendingUpTo(CpiDates, MaxObs) :
       s_cpi = [i \in DOMAIN dates |->
                  [Date |-> dates[i],
                   CPI |-> Reading(YearOf(dates[i]), MonthOf(dates[i]))]]
  /\ \E dates \in AscendingUpTo(FmrDates, MaxFmrRows) :
       s_fmr = [i \in DOMAIN dates |-> [Date |-> dates[i], rent |-> FmrRent]]
  /\ s_start_month \in StartMonths
  /\ s_binned = <<>>
  /\ s_out = <<>>
  /\ s_pc = "start"
  /\ s_err = "none"

\* 70-71
SmoothCheck ==
  /\ s_pc = "start"
  /\ IF InRange(s_start_month)
     THEN s_pc' = "checked" /\ s_err' = "none"
     ELSE s_pc' = "raised" /\ s_err' = "ValueError"
  /\ UNCHANGED <<s_cpi, s_fmr, s_start_month, s_binned, s_out>>
  /\ UNCHANGED <<dedupVars, zipVars, metroVars, trendVars, lagVars, cpiVars, selectVars>>

\* 74-80.  A table without rows has no DatetimeIndex when it is the empty
\* frame of transform_cpi_data (groupby raises TypeError) and an empty one
\* when its rows were dropped (the result is empty)
SmoothRebin ==
  /\ s_pc = "checked"
  /\ IF s_start_month \notin month_map
     THEN s_pc' = "raised" /\ s_err' = "KeyError" /\ UNCHANGED s_binned
     ELSE IF s_cpi = <<>>
     THEN \/ s_pc' = "raised" /\ s_err' = "TypeError" /\ UNCHANGED s_binned
          \/ s_pc' = "binned" /\ s_err' = "none" /\ s_binned' = <<>>
     ELSE /\ s_pc' = "binned"
          /\ s_err' = "none"
          /\ s_binned' = Rebin(s_cpi, s_start_month)
  /\ UNCHANGED <<s_cpi, s_fmr, s_start_month, s_out>>
  /\ UNCHANGED <<dedupVars, zipVars, metroVars, trendVars, lagVars, cpiVars, selectVars>>

\* 81-87
SmoothMerge ==
  /\ s_pc = "binned"
  /\ s_out' = MergeOnDate(s_fmr, s_binned)
  /\ s_pc' = "done"
  /\ UNCHANGED <<s_cpi, s_fmr, s_start_month, s_binned, s_err>>
  /\ UNCHANGED <<dedupVars, zipVars, metroVars, trendVars, lagVars, cpiVars, selectVars>>

----------------------------------------------------------------------------
(* fetchData.select_area, 276-321.  A string is the sequence of its        *)
(* characters; a_typed is what the user has entered so far.                *)

\* 299: while True and try_count <= 3
MaxAttempts == 3

Digits == <<"0", "1", "2", "3", "4", "5", "6", "7", "8", "9">>

\* a character that int() reads
IsDecimal(c) == \E k \in DOMAIN Digits : Digits[k] = c

\* str.isdigit(): not empty and digits only; a superscript digit is a digit
\* for isdigit
IsDigit(str) == str # <<>> /\ \A i \in DOMAIN str : IsDecimal(str[i]) \/ str[i] = "sup2"

DigitValue(c) == (CHOOSE k \in DOMAIN Digits : Digits[k] = c) - 1

\* int(index) of a string of decimal digits
RECURSIVE IntOf(_)
IntOf(str) ==
  IF str = <<>> THEN 0
  ELSE 10 * IntOf(SubSeq(str, 1, Len(str) - 1)) + DigitValue(str[Len(str)])

\* int() raises ValueError for a digit that is not decimal
IntParses(str) == \A i \in DOMAIN str : IsDecimal(str[i])

RegionMetro == <<"m", "e", "t", "r", "o">>
RegionZip == <<"z", "i", "p">>

\* the region arguments tried
Regions == {RegionMetro, RegionZip, <<"M", "e", "t", "r", "o">>, <<"Z", "I", "P">>, <<"A", "B">>}

\* 289: the test of the argument
RegionAccepted(region) == Lower(region) = RegionMetro \/ Lower(region) = RegionZip

\* what the user may enter at a prompt
Entries ==
  {<<"q">>, <<"Q">>, <<"0">>, <<"0", "1">>, <<"2">>, <<"3">>, <<"1", "0">>, <<"sup2">>,
   <<"x">>, <<"-", "1">>, <<>>}

\* Python's None
None == <<"N", "o", "n", "e">>

IdleSelect ==
  /\ a_region = RegionMetro
  /\ a_rows = 0
  /\ a_typed = <<>>
  /\ a_try_count = 1
  /\ a_index = None
  /\ a_pc = "idle"
  /\ a_err = "none"

InitSelect ==
  /\ a_region \in Regions
  /\ a_rows \in 0..MaxAreaRows
  /\ a_typed = <<>>
  /\ a_try_count = 1
  /\ a_index = None
  /\ a_pc = "start"
  /\ a_err = "none"

\* 289-298: the test of region, the first prompt text, try_count = 1
SelectStart ==
  /\ a_pc = "start"
  /\ IF RegionAccepted(a_region)
     THEN a_pc' = "prompt" /\ a_err' = "none"
     ELSE a_pc' = "raised" /\ a_err' = "RegionError"
  /\ UNCHANGED <<a_region, a_rows, a_typed, a_try_count, a_index>>
  /\ UNCHANGED <<dedupVars, zipVars, metroVars, trendVars, lagVars, cpiVars, smoothVars>>

\* 299-320: one pass of the loop.  The break of the quit entry leaves the
\* loop for line 321.
SelectEntry ==
  /\ a_pc = "prompt"
  /\ a_try_count <= MaxAttempts
  /\ \E index \in Entries :
       /\ a_typed' = Append(a_typed, index)
       /\ IF Lower(index) = <<"q">>
          THEN /\ a_index' = None
               /\ a_pc' = "raised"
               /\ a_err' = "AttemptsExhausted"
               /\ a_try_count' = a_try_count
          ELSE IF IsDigit(index)
          THEN IF ~IntParses(index)
               THEN /\ a_pc' = "raised"
                    /\ a_err' = "InvalidLiteral"
                    /\ UNCHANGED <<a_index, a_try_count>>
               ELSE IF IntOf(index) < a_rows
               THEN /\ a_index' = index
                    /\ a_pc' = "returned"
                    /\ UNCHANGED <<a_err, a_try_count>>
               ELSE /\ a_try_count' = a_try_count + 1
                    /\ UNCHANGED <<a_index, a_pc, a_err>>
          ELSE /\ a_try_count' = a_try_count + 1
               /\ UNCHANGED <<a_index, a_pc, a_err>>
  /\ UNCHANGED <<a_region, a_rows>>
  /\ UNCHANGED <<dedupVars, zipVars, metroVars, trendVars, lagVars, cpiVars, smoothVars>>

\* 299, 321: the loop ends when try_count has passed 3
SelectExhausted ==
  /\ a_pc = "prompt"
  /\ a_try_count > MaxAttempts
  /\ a_pc' = "raised"
  /\ a_err' = "AttemptsExhausted"
  /\ UNCHANGED <<a_region, a_rows, a_typed, a_try_count, a_index>>
  /\ UNCHANGED <<dedupVars, zipVars, metroVars, trendVars, lagVars, cpiVars, smoothVars>>

-----
(* Specifications *)

InitSpecDedup == InitDedup /\ IdleZip /\ IdleMetro /\ IdleTrends /\ IdleLag /\ IdleCpi /\ IdleSmooth /\ IdleSelect

SpecDedup == InitSpecDedup /\ [][CallCommonZipcodeMean]_vars

NextZip == ZipLoadFile \/ ZipFinish

InitSpecZip == IdleDedup /\ InitZip /\ IdleMetro /\ IdleTrends /\ IdleLag /\ IdleCpi /\ IdleSmooth /\ IdleSelect

SpecZip == InitSpecZip /\ [][NextZip]_vars

NextMetro == MetroStart \/ MetroLoadFile \/ MetroFinish

InitSpecMetro == IdleDedup /\ IdleZip /\ InitMetro /\ IdleTrends /\ IdleLag /\ IdleCpi /\ IdleSmooth /\ IdleSelect

SpecMetro == InitSpecMetro /\ [][NextMetro]_vars

InitSpecTrends == IdleDedup /\ IdleZip /\ IdleMetro /\ InitTrends /\ IdleLag /\ IdleCpi /\ IdleSmooth /\ IdleSelect

NextTrends == TrendsAddZip \/ CallZipcodesTrends

SpecTrends == InitSpecTrends /\ [][NextTrends]_vars

NextLag == LagValidate \/ LagEstimate \/ LagTry \/ LagDecide

InitSpecLag == IdleDedup /\ IdleZip /\ IdleMetro /\ IdleTrends /\ InitLag /\ IdleCpi /\ IdleSmooth /\ IdleSelect

SpecLag == InitSpecLag /\ [][NextLag]_vars

NextAnalyzers == NextLag \/ NextTrends

InitSpecAnalyzers ==
  /\ IdleDedup /\ IdleZip /\ IdleMetro /\ IdleCpi /\ IdleSmooth /\ IdleSelect
  /\ \/ InitLag /\ IdleTrends
     \/ IdleLag /\ InitTrends

SpecAnalyzers == InitSpecAnalyzers /\ [][NextAnalyzers]_vars

NextCpi == CpiPivotYear \/ CpiReturn

InitSpecCpi == IdleDedup /\ IdleZip /\ IdleMetro /\ IdleTrends /\ IdleLag /\ InitCpi /\ IdleSmooth /\ IdleSelect

SpecCpi == InitSpecCpi /\ [][NextCpi]_vars

NextSmooth == SmoothCheck \/ SmoothRebin \/ SmoothMerge

InitSpecSmooth ==
  IdleDedup /\ IdleZip /\ IdleMetro /\ IdleTrends /\ IdleLag /\ IdleCpi /\ InitSmooth /\ IdleSelect

SpecSmooth == InitSpecSmooth /\ [][NextSmooth]_vars

NextSelect == SelectStart \/ SelectEntry \/ SelectExhausted

InitSpecSelect ==
  IdleDedup /\ IdleZip /\ IdleMetro /\ IdleTrends /\ IdleLag /\ IdleCpi /\ IdleSmooth /\ InitSelect

SpecSelect == InitSpecSelect /\ [][NextSelect]_vars

---------------------------------------------------------------------------------------------------------------------------------------------------
(* Claims on common_zipcode_mean (SpecDedup) *)

Occurrences(tbl, z) == Len(RowsOf(tbl, z))

\* C1: the table common_zipcode_mean returns has exactly one row per distinct
\* identifier of its input, whatever cells are missing: no identifier occurs
\* twice and none is lost.
C1_OneRowPerZip ==
  d_pc # "start" =>
    /\ d_pc = "done"
    /\ ZipSet(d_out.rows) = ZipSet(d_in)
    /\ \A z \in ZipSet(d_in) : Occurrences(d_out.rows, z) = 1

----------------------------------------------------------------------------
(* Claims on the zip-level loader (SpecZip) *)

\* the files of the corpus list no zip code twice
NoRepeatedZip(disk) ==
  \A i \in DOMAIN disk : \A z \in Zips : Occurrences(disk[i].rows, z) <= 1

\* the zip codes present in the table of every year
InEveryYear(disk) == {z \in Zips : \A i \in DOMAIN disk : z \in ZipSet(disk[i].rows)}

RowsOfYear(tbl, z, year) ==
  SelectSeq(tbl, LAMBDA r : r.ZIPCODE = z /\ r.Date = OctoberOf(year))

\* C2: an identifier is in the output of the stacked assembly if and only if
\* it is in the table of every year (a year of zero rows excludes all), and
\* each surviving identifier has exactly one row per year.  Stated for
\* corpora whose files list no zip code twice.
C2_CommonZipsOnly ==
  (z_pc = "done" /\ NoRepeatedZip(z_disk)) =>
    /\ ZipSet(z_final) = InEveryYear(z_disk)
    /\ \A z \in ZipSet(z_final) : \A i \in DOMAIN z_files :
         Len(RowsOfYear(z_final, z, z_files[i])) = 1

\* C5: a file whose columns do not match the layout of its year is logged
\* and not raised: the load of the corpus goes on without it.
C5_MismatchNotRaised ==
  (/\ Len(z_files) >= 2
   /\ \E i \in DOMAIN z_disk : ~ZipColumnsMatch(z_files[i], z_disk[i])) => z_pc # "raised"

OneRowPerZipAndDate(tbl) ==
  \A i, j \in DOMAIN tbl :
    (tbl[i].ZIPCODE = tbl[j].ZIPCODE /\ tbl[i].Date = tbl[j].Date) => i = j

\* C6: merge_area_code_zipcode never changes the number of rows: every
\* (zip code, date) row of the assembled corpus is in its output exactly once,
\* with one area code, also when the most recent file lists a zip code on
\* several rows.
C6_MappingKeepsRowCount ==
  (z_pc = "done" /\ OneRowPerZipAndDate(z_assembled)) =>
    /\ Len(z_final) = Len(z_assembled)
    /\ OneRowPerZipAndDate(z_final)

----------------------------------------------------------------------------
(* Claims on the metro-level loader (SpecMetro) *)

\* C3: under the inner policy the identifiers of the joined frame are exactly
\* the identifiers present in all the tables merged so far: once that set is
\* empty a further table brings none back.
C3_InnerKeepsCommonZips ==
  (m_method = Inner /\ m_pc \in {"loop", "done"} /\ Len(m_disk) >= 1) =>
    ZipSet(m_df) = InEveryYear(m_disk)

\* C4: every spelling of "inner" and "outer" runs its join without failing,
\* and every other string fails with the ValueError of line 95 before any
\* file is loaded.
C4_AnySpellingAccepted ==
  /\ MethodAccepted(m_method) => m_err # "MergeError"
  /\ (~MethodAccepted(m_method) /\ m_pc # "start") =>
       (m_pc = "raised" /\ m_err = "ValueError" /\ m_disk = <<>>)

----------------------------------------------------------------------------
(* Claims on zipcodes_trends (SpecTrends) *)

ZipIndex(row) == row.ZIPCODE - 10000

StrictlyAbove(panel, z) ==
  Cardinality({t \in Periods(panel) : Distance(panel, z, t) > 0 /\ BeyondBand(panel, z, t)})

StrictlyBelow(panel, z) ==
  Cardinality({t \in Periods(panel) : Distance(panel, z, t) < 0 /\ BeyondBand(panel, z, t)})

\* no percentage change of the panel is exactly on a limit
NoneOnALimit(panel) ==
  \A z \in DOMAIN panel : \A t \in Periods(panel) :
    BeyondBand(panel, z, t) <=> AtLeastBand(panel, z, t)

\* C7: for every zip code, "Above STD" is the number of periods in which its
\* percentage change exceeds Upper_Limit and "Below STD" the number in which
\* it is below Lower_Limit, whatever the pattern of flagged periods (none,
\* all, a single flagged period, more flagged than not).  Stated for panels
\* in which no value is exactly on a limit.
C7_CountsAreFlaggedPeriods ==
  (t_pc = "done" /\ NoneOnALimit(t_in)) =>
    \A i \in DOMAIN t_out :
      /\ t_out[i].Above = StrictlyAbove(t_in, ZipIndex(t_out[i]))
      /\ t_out[i].Below = StrictlyBelow(t_in, ZipIndex(t_out[i]))

----------------------------------------------------------------------------
(* Claims on lag_calculator in search mode (SpecLag) *)

Searched == l_pc = "done" /\ l_result.kind # "estimate"

\* the field is the CPI shifted by exactly 2 rows, and the two columns have
\* a correlation at that lag
ShiftedByTwo ==
  /\ l_field = Shift(l_cpi, 2)
  /\ CorrAtLag(l_field, l_cpi, 2).def

ReachesOne(lag) ==
  LET r == CorrAtLag(l_field, l_cpi, lag) IN r.def /\ r.c > 0 /\ r.c * r.c = r.v

\* C8 as claimed: on a field that is the CPI shifted by exactly 2 the search
\* selects lag 2 with correlation 1.00, also when other lags reach 1.
C8_SelectsLagTwo ==
  (Searched /\ ShiftedByTwo) =>
    (l_result.kind = "reported" /\ l_result.lag = 2 /\ l_result.corr = 100)

\* C8 as amended: on a field that is the CPI shifted by exactly 2 (with a
\* correlation defined at lag 2) the search reports correlation 1.00 and the
\* smallest lag of {0,1,2,3} that reaches correlation 1: lag 2 unless lag 0
\* or lag 1 reaches 1 too.
C8_SelectsFirstPerfectLag ==
  (Searched /\ ShiftedByTwo) =>
    /\ l_result.kind = "reported"
    /\ l_result.corr = 100
    /\ l_result.lag \in 0..2
    /\ ReachesOne(l_result.lag)
    /\ \A lag \in 0..(l_result.lag - 1) : ~ReachesOne(lag)

C8_Witness ==
  /\ Searched /\ ShiftedByTwo
  /\ l_result.kind = "reported" /\ l_result.lag = 2
  /\ ReachesOne(3)

\* a >= b for two correlations that are numbers
CorrAtLeast(a, b) ==
  a.def /\ b.def /\ SignedSquare(a.c) * b.v >= SignedSquare(b.c) * a.v

\* the correlation of the field with the CPI at every lag searched
CorrByLag == [lag \in Lags |-> CorrAtLag(l_field, l_cpi, lag)]

\* the lags whose correlation is a number
DefinedLags == {lag \in Lags : CorrByLag[lag].def}

\* the lags whose correlation is the highest of all
HighestLags ==
  LET r == CorrByLag
      defined == {lag \in Lags : r[lag].def}
  IN  {lag \in defined : \A other \in defined : CorrAtLeast(r[lag], r[other])}

\* a correlation c / sqrt(v) of at least 0.80
AtLeastFourFifths(a) == a.c >= 0 /\ 25 * a.c * a.c >= 16 * a.v

\* C9: the search reports a (lag, correlation) pair and draws the shifted
\* table only if the highest correlation over the lags 0..3 is at least 0.80,
\* and the lag reported is one that attains it; when the highest correlation
\* is below 0.80, or every correlation is zero, negative or undefined, it
\* prints the "no correlation" line and produces nothing else.
C9_ReportOnlyAboveThreshold ==
  Searched =>
    LET highest == HighestLags
        reaches == \E lag \in highest : AtLeastFourFifths(CorrByLag[lag])
    IN  /\ (l_result.kind = "reported" \/ l_plot # NoPlot) =>
             /\ reaches
             /\ l_result.kind = "reported"
             /\ l_result.lag \in highest
             /\ l_plot = plot_lag(l_field, l_cpi, l_result.lag)
        /\ ~reaches =>
             (l_result.kind = "no correlation" /\ l_plot = NoPlot)

C9_Witness ==
  /\ Searched
  /\ l_result.kind = "reported"
  /\ l_result.corr < 100
  /\ Cardinality(DefinedLags) >= 2
  /\ HighestLags # DefinedLags

----------------------------------------------------------------------------
(* Claims on transform_cpi_data (SpecCpi) *)

\* the rows of the result that carry the date of year i, month j
RowsForCell(i, j) ==
  {k \in DOMAIN c_df_t : c_df_t[k].Date = DateOf(c_years[i], c_months[j])}

\* C10: for a matrix of one or more year rows the result has exactly one row
\* for every (year, month) cell with a reading, carrying that reading, and
\* no row whose value is missing.
C10_OneRowPerPresentCell ==
  (c_pc = "done" /\ Len(c_years) >= 1) =>
    /\ \A i \in DOMAIN c_years : \A j \in DOMAIN c_months :
         c_cells[i][j] =>
           /\ Cardinality(RowsForCell(i, j)) = 1
           /\ \A k \in RowsForCell(i, j) :
                c_df_t[k].CPI = Reading(c_years[i], c_months[j])
    /\ \A k \in DOMAIN c_df_t : c_df_t[k].CPI # NA

Ascending(q) == \A i, j \in DOMAIN q : i < j => q[i] < q[j]

\* C11 as claimed: the result is in ascending order of Date for every
\* matrix, whatever the order of its year rows and month columns.
C11_SortedForAnyOrder ==
  c_pc = "done" => Ascending([k \in DOMAIN c_df_t |-> c_df_t[k].Date])

\* C11 as amended: the result is in ascending order of Date when the year
\* rows and the month columns of the matrix are in ascending order (as
\* DataFrame.pivot leaves them); the rows come out in the order of the
\* matrix and are not sorted.
C11_SortedWhenMatrixSorted ==
  (c_pc = "done" /\ Ascending(c_years) /\ Ascending(c_months)) =>
    Ascending([k \in DOMAIN c_df_t |-> c_df_t[k].Date])

C11_Witness ==
  /\ c_pc = "done" /\ Ascending(c_years) /\ Ascending(c_months)
  /\ Len(c_years) = 2 /\ Len(c_months) = 2
  /\ Len(c_df_t) >= 3

----------------------------------------------------------------------------
(* Claims on smooth_and_merge (SpecSmooth) *)

\* C12: smooth_and_merge raises the range error for every start_month
\* outside 1..12, before the CPI series is re-binned and before the join,
\* and the range check passes for every start_month in 1..12.
C12_RangeErrorFirst ==
  s_pc \notin {"idle", "start"} =>
    IF s_start_month < 1 \/ s_start_month > 12
    THEN s_pc = "raised" /\ s_err = "ValueError" /\ s_binned = <<>> /\ s_out = <<>>
    ELSE s_err # "ValueError"

C12_Witness ==
  /\ s_pc = "raised" /\ s_start_month = 0
  /\ s_cpi # <<>> /\ s_fmr # <<>>

\* the number of the month of a date, counted from year 0
MonthIndex(date) == YearOf(date) * 12 + MonthOf(date) - 1

\* a yearly window of the CPI series starts at the date: the date is a first
\* day of start_month and its twelve months reach into the span from the
\* first to the last observation
HasBucket(date) ==
  /\ s_cpi # <<>>
  /\ MonthOf(date) = s_start_month
  /\ \E i \in DOMAIN s_cpi : MonthIndex(s_cpi[i].Date) < MonthIndex(date) + 12
  /\ \E i \in DOMAIN s_cpi : MonthIndex(s_cpi[i].Date) >= MonthIndex(date)

\* C13: every row of the output has a Date of the rent table that is the
\* anchor (first day of start_month) of a re-binned CPI bucket; the rent rows
\* of any other date are dropped, the others are kept once, and no Date
\* appears that the rent table does not have.
C13_InnerJoinOnAnchors ==
  s_pc = "done" =>
    /\ \A k \in DOMAIN s_out :
         /\ \E i \in DOMAIN s_fmr : s_fmr[i].Date = s_out[k].Date
         /\ HasBucket(s_out[k].Date)
    /\ \A i \in DOMAIN s_fmr :
         Cardinality({k \in DOMAIN s_out : s_out[k].Date = s_fmr[i].Date})
           = IF HasBucket(s_fmr[i].Date) THEN 1 ELSE 0

C13_Witness ==
  /\ s_pc = "done"
  /\ Len(s_fmr) = 2 /\ Len(s_out) = 1
  /\ \E i \in DOMAIN s_fmr : MonthOf(s_fmr[i].Date) # s_start_month
  /\ \E i \in DOMAIN s_cpi : s_cpi[i].Date < s_out[1].Date

\* the observations dated from the date up to, not including, the same
\* month of the next year
WindowOf(date) ==
  {i \in DOMAIN s_cpi :
     /\ MonthIndex(s_cpi[i].Date) >= MonthIndex(date)
     /\ MonthIndex(s_cpi[i].Date) < MonthIndex(date) + 12}

WindowSum(date) ==
  SeqSum([i \in DOMAIN s_cpi |-> IF i \in WindowOf(date) THEN s_cpi[i].CPI ELSE 0])

\* C14: the CPI joined to the anchor date D is the average of exactly the
\* observations dated from D up to, not including, the same month of the
\* next year (missing when there is none), so no observation is counted in
\* two buckets and none dated before D is counted for D.
C14_YearWindowMean ==
  s_pc = "done" =>
    \A k \in DOMAIN s_out :
      IF WindowOf(s_out[k].Date) = {} THEN s_out[k].CPI = NoMean
      ELSE /\ s_out[k].CPI # NoMean
           /\ s_out[k].CPI[2] = Cardinality(WindowOf(s_out[k].Date))
           /\ s_out[k].CPI[1] = WindowSum(s_out[k].Date)

C14_Witness ==
  /\ s_pc = "done"
  /\ Len(s_out) = 2
  /\ s_out[1].CPI[2] = 2
  /\ s_out[2].CPI # NoMean
  /\ \E i \in DOMAIN s_cpi : s_cpi[i].Date = s_out[2].Date

----------------------------------------------------------------------------
(* Claim on the layout of a year (SpecMetro) *)

\* the layout of the file of a year
RuleLayout(year) ==
  IF year >= 2018 /\ year # 2020 THEN "A"
  ELSE IF year = 2020 THEN "B"
  ELSE IF 2016 <= year /\ year <= 2017 THEN "C"
  ELSE IF year = 2015 THEN "D"
  ELSE "E"

\* C15: the layout asked of a file is the one of its year for every year,
\* also before 2014, and the table of a file that has this layout is
\* normalized to the identifier and the five rent columns: the metro-level
\* load of such a file does not fail for want of a layout.
C15_LayoutForEveryYear ==
  \A i \in DOMAIN m_disk :
    m_disk[i].layout = RuleLayout(m_files[i]) =>
      /\ MetroLayoutFor(m_files[i]) = RuleLayout(m_files[i])
      /\ ~(i = Len(m_disk) /\ m_pc = "raised" /\ m_err = "UnboundLocalError")

----------------------------------------------------------------------------
(* Claim on the values common_zipcode_mean synthesizes (SpecDedup) *)

\* the identifiers with more than one input row and no missing rent cell
FullGroups(tbl) ==
  {z \in ZipSet(tbl) :
     /\ Occurrences(tbl, z) > 1
     /\ \A i \in DOMAIN tbl : \A c \in 1..NumRentCols :
          tbl[i].ZIPCODE = z => tbl[i].rent[c] # NA}

\* the sum of rent field c over the rows of z
GroupSum(tbl, z, c) ==
  SeqSum([i \in DOMAIN tbl |-> IF tbl[i].ZIPCODE = z THEN tbl[i].rent[c] ELSE 0])

----------------------------------------------------------------------------
(* Claim on the field names of the two analyzers (SpecAnalyzers) *)

PermittedFields ==
  {"Efficiency", "One-Bedroom", "Two-Bedroom", "Three-Bedroom", "Four-Bedroom",
   "Mean_Rent"}

\* C17: lag_calculator (with the estimate and in the search) and
\* zipcodes_trends raise ValueError for every field name outside the six
\* permitted ones, before anything is computed, printed, drawn or returned,
\* and never raise it for one of the six.
C17_FieldNameChecked ==
  /\ l_pc \notin {"idle", "start"} =>
       IF l_name \in PermittedFields THEN l_err # "ValueError"
       ELSE /\ l_pc = "raised" /\ l_err = "ValueError"
            /\ l_lag = 0 /\ l_best_corr = ZeroCorr
            /\ l_result = NoReport /\ l_plot = NoPlot
  /\ t_pc \notin {"idle", "input"} =>
       IF t_field \in PermittedFields THEN t_err # "ValueError"
       ELSE t_pc = "raised" /\ t_err = "ValueError" /\ t_out = <<>>

C17_Witness ==
  /\ l_pc = "raised" /\ l_name = "CPI" /\ l_cpi # <<>>

----------------------------------------------------------------------------
(* Claim on the area codes of retired zip codes (SpecZip) *)

\* the file the area codes are read from
MostRecentFile == z_disk[IndexOfYear(z_files, MaxYear(z_files))]

\* the rows of the result that are the row r of the assembled corpus
CopiesOf(r) ==
  {k \in DOMAIN z_final :
     /\ z_final[k].ZIPCODE = r.ZIPCODE
     /\ z_final[k].Date = r.Date
     /\ z_final[k].rent = r.rent}

\* the rows of the assembled corpus equal to its row r
SameAs(r) == {j \in DOMAIN z_assembled : z_assembled[j] = r}

\* C18: merge_area_code_zipcode keeps every row of the assembled corpus; the
\* rows of a zip code that the most recent file does not list are in the
\* result as often as in the corpus, with a missing area code, and the call
\* does not fail because of them: it fails only without files or on a most
\* recent file of another layout.
C18_UnmappedRowsKept ==
  /\ z_pc = "done" =>
       \A i \in DOMAIN z_assembled :
         IF z_assembled[i].ZIPCODE \in ZipSet(MostRecentFile.rows)
         THEN Cardinality(CopiesOf(z_assembled[i])) >= Cardinality(SameAs(z_assembled[i]))
         ELSE /\ Cardinality(CopiesOf(z_assembled[i])) = Cardinality(SameAs(z_assembled[i]))
              /\ \A k \in CopiesOf(z_assembled[i]) : z_final[k].Metro_Codes = "NA"
  /\ (z_pc = "raised" /\ z_err = "ValueError") => MostRecentFile.layout # "A"
  /\ (z_pc = "raised" /\ z_err = "KeyError") => z_files = <<>>

C18_Witness ==
  /\ z_pc = "done"
  /\ Len(z_assembled) >= 1
  /\ \E k \in DOMAIN z_final : z_final[k].Metro_Codes = "NA"

----------------------------------------------------------------------------
(* Claim on the report of zipcodes_trends (SpecTrends) *)

\* the key the report is ordered by
SortKey(row) == <<row.Total, row.Above, row.Below>>

\* a key that is not smaller than another, column by column from the left
KeyAtLeast(a, b) ==
  \/ a[1] > b[1]
  \/ a[1] = b[1] /\ a[2] > b[2]
  \/ a[1] = b[1] /\ a[2] = b[2] /\ a[3] >= b[3]

\* C19: the report has exactly one row for every zip code of the input, in
\* every row Total = Above STD + Below STD, and the rows are in descending
\* order of (Total, Above STD, Below STD).
C19_OneRowPerZipSorted ==
  t_pc = "done" =>
    /\ Len(t_out) = Len(t_in)
    /\ \A z \in DOMAIN t_in :
         Cardinality({i \in DOMAIN t_out : ZipIndex(t_out[i]) = z}) = 1
    /\ \A i \in DOMAIN t_out : t_out[i].Total = t_out[i].Above + t_out[i].Below
    /\ \A i, j \in DOMAIN t_out :
         i < j => KeyAtLeast(SortKey(t_out[i]), SortKey(t_out[j]))

C19_Witness ==
  /\ t_pc = "done"
  /\ \E i, j \in DOMAIN t_out :
       /\ i < j
       /\ t_out[i].Total > t_out[j].Total
       /\ ZipIndex(t_out[i]) > ZipIndex(t_out[j])

----------------------------------------------------------------------------
(* Claim on the outer policy of the metro-level loader (SpecMetro) *)

\* the zip codes present in the table of some year
InSomeYear(disk) == {z \in Zips : \E i \in DOMAIN disk : z \in ZipSet(disk[i].rows)}

RowsWithZip(df, z) == {i \in DOMAIN df : df[i].ZIPCODE = z}

\* C20: under the outer policy the joined frame holds exactly the zip codes of
\* the tables of all the years, each of them on exactly one row.
C20_OuterKeepsUnionOnce ==
  (m_method = Outer /\ m_pc = "done") =>
    /\ ZipSet(m_df) = InSomeYear(m_disk)
    /\ \A z \in ZipSet(m_df) : Cardinality(RowsWithZip(m_df, z)) = 1

----------------------------------------------------------------------------
(* Claim on a corpus of one file (SpecZip) *)

\* the call is over, on a directory of one file that has the columns of its
\* year and no zip code on two rows
OneCleanFile ==
  /\ Len(z_files) = 1
  /\ Len(z_disk) = 1
  /\ z_pc \in {"done", "raised"}
  /\ z_disk[1].layout = ZipLayoutFor(z_files[1])
  /\ NoRepeatedZip(z_disk)

\* the rows of the result that carry a raw row of a year: its zip code, its
\* five rents as they are, the October of the year
CarriedBy(final, raw, year) ==
  {i \in DOMAIN final : /\ final[i].ZIPCODE = raw.ZIPCODE
                        /\ final[i].rent = raw.rent
                        /\ final[i].Date = OctoberOf(year)}

\* C21: on a directory of one file without repeated zip codes the zip-level
\* load_all_fmr_files returns as many rows as the file has, one for each row
\* of the file, with the five rents unchanged and the date of the year.
C21_SingleFileRoundTrip ==
  OneCleanFile =>
    /\ z_pc = "done"
    /\ Len(z_final) = Len(z_disk[1].rows)
    /\ \A k \in DOMAIN z_disk[1].rows :
         Cardinality(CarriedBy(z_final, z_disk[1].rows[k], z_files[1])) = 1

----------------------------------------------------------------------------
(* Claim on the rows common_zipcode_mean keeps and makes (SpecDedup) *)

\* the zip codes of a table that are on one row, and on several rows
OnOneRow(tbl) == {z \in Zips : Occurrences(tbl, z) = 1}
OnSeveralRows(tbl) == {z \in Zips : Occurrences(tbl, z) > 1}

\* the rows made by the call: the single row of a zip code that was on
\* several rows of the input
Synthesized(in, out) ==
  {i \in DOMAIN out : out[i].ZIPCODE \in OnSeveralRows(in) /\ Occurrences(out, out[i].ZIPCODE) = 1}

\* the row has a value in every column in which all the rows of its zip code
\* had one
FilledLike(row, group) ==
  /\ \A c \in 1..NumRentCols :
       (\A k \in DOMAIN group : group[k].rent[c] # NA) => row.rent[c] # NA
  /\ (\A k \in DOMAIN group : group[k].Date # NA) => row.Date # NA

\* C22: a row whose zip code is on no other row is returned with all its
\* fields as they were, the row made for a repeated zip code has a value in
\* every column of the table, and a table without repeated zip codes is
\* returned as it was.
C22_FrameOfDedup ==
  d_pc = "done" =>
    /\ \A z \in OnOneRow(d_in) : RowsOf(d_out.rows, z) = RowsOf(d_in, z)
    /\ \A i \in Synthesized(d_in, d_out.rows) :
         FilledLike(d_out.rows[i], RowsOf(d_in, d_out.rows[i].ZIPCODE))
    /\ OnSeveralRows(d_in) = {} => d_out.rows = d_in

----------------------------------------------------------------------------
(* Claim on select_area (SpecSelect) *)

LastTyped == a_typed[Len(a_typed)]

Quit(entry) == entry = <<"q">> \/ entry = <<"Q">>

\* the entries that are neither the quit letter nor the number of a row
Invalid(entry, rows) ==
  /\ ~Quit(entry)
  /\ ~(entry # <<>> /\ IntParses(entry) /\ IntOf(entry) < rows)

\* C23: the quit letter ends select_area with None and without an error, the
\* error of the exhausted attempts comes only after three invalid entries,
\* and an index is returned only for an entry of digits whose value is less
\* than the number of rows.
C23_QuitEndsWithNone ==
  /\ (a_typed # <<>> /\ Quit(LastTyped)) =>
       (a_pc = "returned" /\ a_index = None /\ a_err = "none")
  /\ a_err = "AttemptsExhausted" =>
       (Len(a_typed) = MaxAttempts /\ \A i \in DOMAIN a_typed : Invalid(a_typed[i], a_rows))
  /\ (a_pc = "returned" /\ a_index # None) =>
       (a_index = LastTyped /\ IsDigit(a_index) /\ IntParses(a_index) /\ IntOf(a_index) < a_rows)

====
